---------------------------- MODULE Spec2Model ----------------------------
(***************************************************************************)
(* A state-machine model of the simulation driver (src/simulation.py,     *)
(* class Simulation) and of the self-contained trainer RNN.run            *)
(* (src/network.py).                                                       *)
(*                                                                         *)
(* A Python object is modelled by its __dict__: a function from attribute *)
(* names to values, so hasattr(obj, a) is  a \in DOMAIN obj.  None is the  *)
(* empty tuple and a nullable number v is the one-element tuple <<v>>.    *)
(* A float is a fraction [n, d]; d = 0 encodes inf (n = 1) and NaN        *)
(* (n = 0).  The variable trace is the history of the calls the driver    *)
(* makes on its collaborators, in program order.                           *)
(***************************************************************************)
EXTENDS Integers, Sequences, FiniteSets, TLC

VARIABLES
    pc,      \* position of the Simulation client: new/constructed/loop/done/raised/idle
    sim,     \* __dict__ of the Simulation object (sim["net"] is the net's __dict__)
    objs,    \* the learning-algorithm objects, by name
    trace,   \* calls made so far: <<step, event, argument>>
    exc,     \* the exception that ended the call, or "none"
    it,      \* the position of `for i_t in range(total_time_steps)`
    nested,  \* the test simulations the run has started so far, with their outcomes
    rpc,     \* position of the RNN.run client: new/constructed/loop/done/raised/idle
    rnn,     \* __dict__ of the RNN object of src/network.py
    rtrace,  \* calls made by RNN.run so far
    rexc,    \* the exception that ended the RNN call, or "none"
    rloc,    \* the arguments and local variables of RNN.run
    rit      \* the position of `for i_t in range(len(x_inputs))`

vars == <<pc, sim, objs, trace, exc, it, nested, rpc, rnn, rtrace, rexc, rloc, rit>>

---------------------------------------------------------------------------
(* Bounds of the model *)

\* length of data['train']['X']
TrainLen == 3
\* length of data['test']['X']
TestLen == 2
\* largest number of comparison algorithms passed as comp_algs
MaxComp == 2
\* length of x_inputs handed to RNN.run
RnnLen == 3
MaxHidden == 2
MaxOut == 2

---------------------------------------------------------------------------
(* Python values *)

None == << >>
Some(v) == <<v>>
the(o) == o[1]
hasattr(obj, a) == a \in DOMAIN obj
\* obj.__dict__.update(kw)
dict_update(obj, kw) == kw @@ obj
setattr(obj, a, v) == (a :> v) @@ obj
delattr(obj, a) == [b \in (DOMAIN obj) \ {a} |-> obj[b]]
\* a keyword dictionary with one nullable entry, or none when the option is not passed
kw(key, o) == IF o = None THEN << >> ELSE (key :> o)

(* Floats *)
F(k) == [n |-> k, d |-> 1]
Inf == [n |-> 1, d |-> 0]
NaN == [n |-> 0, d |-> 0]
isfinite(a) == a.d # 0
\* a < b as IEEE does it: false when either side is NaN
Flt(a, b) ==
    IF a = NaN \/ b = NaN THEN FALSE
    ELSE IF a = Inf THEN FALSE
    ELSE IF b = Inf THEN TRUE
    ELSE a.n * b.d < b.n * a.d
\* a - b, NaN and inf propagating
Fsub(a, b) ==
    IF a = NaN \/ b = NaN THEN NaN
    ELSE IF a = Inf /\ b = Inf THEN NaN
    ELSE IF a = Inf THEN Inf
    ELSE IF b = Inf THEN NaN
    ELSE [n |-> a.n * b.d - b.n * a.d, d |-> a.d * b.d]
\* |a| and a * b for floats with denominator 1
Fabs(a) == IF isfinite(a) THEN [n |-> IF a.n < 0 THEN 0 - a.n ELSE a.n, d |-> a.d] ELSE a
Fmul(a, b) ==
    IF a = NaN \/ b = NaN THEN NaN
    ELSE IF ~isfinite(a) \/ ~isfinite(b) THEN (IF a.n = 0 \/ b.n = 0 THEN NaN ELSE Inf)
    ELSE [n |-> a.n * b.n, d |-> a.d * b.d]
\* the sum of a list of finite floats, as a fraction
RECURSIVE Fsum(_)
Fsum(s) ==
    IF s = << >> THEN F(0)
    ELSE LET a == Head(s)
             b == Fsum(Tail(s))
         IN [n |-> a.n * b.d + b.n * a.d, d |-> a.d * b.d]
\* np.mean of a list of floats: NaN for an empty list or a list with a NaN, inf for a
\* list with an inf and no NaN
Fmean(s) ==
    IF Len(s) = 0 THEN NaN
    ELSE IF \E i \in 1..Len(s) : s[i] = NaN THEN NaN
    ELSE IF \E i \in 1..Len(s) : s[i] = Inf THEN Inf
    ELSE [n |-> Fsum(s).n, d |-> Fsum(s).d * Len(s)]

---------------------------------------------------------------------------
(* The state a Simulation method works on, and how a method ends *)

St(sm, ob, tr, ex, ne) == [sim |-> sm, objs |-> ob, trace |-> tr, exc |-> ex, nested |-> ne]
raise(S, e) == [S EXCEPT !.exc = e]
\* an exception raised inside the time loop, with the method that raised it
raise_at(S, e, site) ==
    [S EXCEPT !.exc = e, !.trace = Append(@, <<S.sim["i_t"], "raise", site>>)]
ok(S) == S.exc = "none"
log(S, t, ev, arg) == [S EXCEPT !.trace = Append(@, <<t, ev, arg>>)]
setsim(S, a, v) == [S EXCEPT !.sim = setattr(@, a, v)]
setnet(S, a, v) == [S EXCEPT !.sim = setattr(@, "net", setattr(S.sim["net"], a, v))]

---------------------------------------------------------------------------
(* Collaborators of the driver whose code is outside src/: the network    *)
(* interface the driver calls (spec 4.1), the optimizer (spec 4.2) and    *)
(* the learning-algorithm contract (spec 4.3).                             *)

\* the value of the hidden state: how it was last (re)set and the forward steps since
Hidden(src, k) == [src |-> src, steps |-> k]

\* a network as the caller builds it: parameters, an initial state
Net0 == [params |-> F(0), h |-> Hidden("init", 0), z |-> "init"]

\* reset(a?, sigma?): h is given, re-drawn from N(0, sigma^2), or drawn by default
net_reset_network(S, t, how) ==
    setnet(log(S, t, "reset_network", how), "h", Hidden(how, 0))

\* next_state(x, sigma): save h_prev, advance h
net_next_state(S, t) ==
    LET h == S.sim["net"]["h"]
        S1 == setnet(S, "h_prev", h)
    IN setnet(log(S1, t, "next_state", "net"), "h", Hidden(h.src, h.steps + 1))

\* z_out(): the output is a function of the parameters and the state
net_z_out(S, t) == setnet(log(S, t, "z_out", "net"), "z", "out")

\* loss.f(z, y): the loss the data gives, NaN once the parameters are NaN
net_loss(S, given) == IF S.sim["net"]["params"] = NaN THEN NaN ELSE given

\* SGD.get_update(params, grads) with learning rate 1
get_update(params, grads) == Fsub(params, grads.g)

\* alg.update_learning_vars(): mutates only the algorithm's own state
alg_update_learning_vars(S, t, name) ==
    LET a == S.objs[name]
        S1 == [S EXCEPT !.objs[name] = setattr(a, "n_updates", a["n_updates"] + 1)]
    IN log(S1, t, "update_learning_vars", name)

\* alg(): emits the gradient list and leaves its recurrent part in alg.rec_grads;
\* every gradient is a multiple of net.error, so a NaN error gives a NaN gradient
emitted(name, t, g) == [alg |-> name, t |-> t, g |-> g]
alg_call(S, t, name, g) ==
    LET ge == IF S.sim["net"]["error"] = NaN THEN NaN ELSE g
        S1 == [S EXCEPT !.objs[name] = setattr(@, "rec_grads", emitted(name, t, ge))]
    IN log(S1, t, "emit", name)

\* alg.reset_learning()
alg_reset_learning(S, t, name) == log(S, t, "reset_learning", name)

\* the learning algorithms a caller can pass; only BPTT variants define T_truncation
AlgObjs ==
    [name \in {"RTRL", "Future_BPTT", "RFLO", "Efficient_BPTT", "UORO"} |->
        IF name = "Future_BPTT" THEN [name |-> name, n_updates |-> 0, T_truncation |-> 2]
        ELSE IF name = "Efficient_BPTT" THEN [name |-> name, n_updates |-> 0, T_truncation |-> 3]
        ELSE [name |-> name, n_updates |-> 0]]
ActiveAlgs == {"RTRL", "Future_BPTT"}
CompPool == <<"RFLO", "Efficient_BPTT", "UORO">>
\* 'BPTT' in name
has_BPTT(name) == name \in {"Future_BPTT", "Efficient_BPTT"}


---------------------------------------------------------------------------
(* Monitor keys.  A key is its text; path is the text split at '.', base  *)
(* is key.split('-')[0] split at '.', has is the set of the features      *)
(* ('radius', 'norm') that occur in the text.                              *)

MonKey(text, path, base, has) == [text |-> text, path |-> path, base |-> base, has |-> has]
K_loss == MonKey("net.loss_", <<"net", "loss_">>, <<"net", "loss_">>, {})
K_y_hat == MonKey("net.y_hat", <<"net", "y_hat">>, <<"net", "y_hat">>, {})
K_A_loss == MonKey("learn_alg.A_loss", <<"learn_alg", "A_loss">>, <<"learn_alg", "A_loss">>, {})
K_rec_grads_norm ==
    MonKey("learn_alg.rec_grads-norm", <<"learn_alg", "rec_grads-norm">>,
           <<"learn_alg", "rec_grads">>, {"norm"})
K_A_radius ==
    MonKey("learn_alg.A-radius", <<"learn_alg", "A-radius">>, <<"learn_alg", "A">>, {"radius"})
K_alignment == MonKey("alignment_matrix", <<"alignment_matrix">>, <<"alignment_matrix">>, {})
\* 'norm' in key holds for this key, and key.split('-')[0] is the whole key
K_clip_norm ==
    MonKey("optimizer.clip_norm", <<"optimizer", "clip_norm">>, <<"optimizer", "clip_norm">>,
           {"norm"})

\* the optimizers (spec 4.2, 6): SGD_Momentum(lr, mu, clip_norm)
OptObjs == [SGD_Momentum |-> [lr |-> F(1), mu |-> F(0), clip_norm |-> F(3)]]

\* the attributes of the simulation that hold a learning algorithm
is_alg_attr(a) == a = "learn_alg" \/ a \in DOMAIN AlgObjs
deref(S, a, v) ==
    IF is_alg_attr(a) THEN (IF v = None THEN None ELSE S.objs[the(v)])
    ELSE IF a = "optimizer" THEN (IF v = None THEN None ELSE OptObjs[the(v)])
    ELSE v

\* rgetattr(obj, 'a.b.c'): getattr along the path; ok is FALSE for AttributeError
RECURSIVE rgetattr(_, _, _)
rgetattr(S, obj, path) ==
    IF path = << >> THEN [ok |-> TRUE, val |-> obj]
    ELSE IF ~hasattr(obj, Head(path)) THEN [ok |-> FALSE, val |-> None]
    ELSE rgetattr(S, deref(S, Head(path), obj[Head(path)]), Tail(path))

\* what a monitor list holds for one step: the step, what was computed, of which object
Obs(t, kind, key, val) == [t |-> t, kind |-> kind, of |-> key.base, val |-> val]

---------------------------------------------------------------------------
(* Simulation.__init__ *)

SimInitAllowed == {"time_steps_per_trial", "reset_sigma", "trial_lr_mask", "i_job", "save_dir"}
SimRunAllowed ==
    {"learn_alg", "optimizer", "a_initial", "sigma", "update_interval", "comp_algs",
     "verbose", "report_interval", "check_accuracy", "check_loss", "save_model_interval"}

unexpected(kwargs, allowed) == (DOMAIN kwargs) \ allowed

\* for attr in allowed_kwargs: if not hasattr(self, attr): setattr(self, attr, None)
none_fill(obj, attrs) ==
    [a \in (DOMAIN obj) \cup attrs |-> IF hasattr(obj, a) THEN obj[a] ELSE None]

Simulation_init(S, net, allowed_kwargs_, kwargs) ==
    LET allowed_kwargs == SimInitAllowed \cup allowed_kwargs_
    IN IF unexpected(kwargs, allowed_kwargs) # {} THEN raise(S, "TypeError")
       ELSE [S EXCEPT !.sim =
               none_fill(dict_update(setattr(S.sim, "net", net), kwargs), allowed_kwargs)]

---------------------------------------------------------------------------
(* Simulation.initialize_run *)

Max(a, b) == IF a > b THEN a ELSE b

\* for alg in self.algs: try: if alg.T_truncation > self.T_lag: ... except AttributeError
RECURSIVE T_lag_of(_, _, _)
T_lag_of(S, algs, cur) ==
    IF algs = << >> THEN cur
    ELSE LET a == S.objs[Head(algs)]
         IN T_lag_of(S, Tail(algs),
                IF hasattr(a, "T_truncation") /\ a["T_truncation"] > cur
                THEN a["T_truncation"] ELSE cur)

\* setattr(self, alg.name, alg) for the comparison algorithms, then for learn_alg
RECURSIVE set_alg_attrs(_, _)
set_alg_attrs(obj, names) ==
    IF names = << >> THEN obj
    ELSE set_alg_attrs(setattr(obj, Head(names), Some(Head(names))), Tail(names))

\* self.net.x_prev = self.x_inputs[0], self.net.y_prev = self.y_labels[0] and
\* self.start_time: x_inputs[0] of an empty array raises
first_inputs(S) ==
    LET x == [split |-> S.sim["mode"], i |-> 0]
    IN IF S.sim["total_time_steps"] = 0 THEN raise(S, "IndexError")
       ELSE setsim(setnet(setnet(S, "x_prev", x), "y_prev", x), "start_time", "t0")

Range(s) == {s[i] : i \in DOMAIN s}

initialize_run(S) ==
    LET sm == S.sim
        train == sm["mode"] = "train"
        S1 == setsim(S, "best_val_loss", Inf)
    IN
    IF train /\ sm["learn_alg"] = None
    THEN \* alg.name of None
         raise(setsim(S1, "algs", <<None>> \o sm["comp_algs"]), "AttributeError")
    ELSE
    LET algs == IF train THEN <<the(sm["learn_alg"])>> \o sm["comp_algs"] ELSE << >>
        d1 == IF train
              THEN [a \in {"algs", "rec_grads_dict", "T_lag"} |->
                      IF a = "algs" THEN algs
                      ELSE IF a = "rec_grads_dict" THEN [k \in Range(algs) |-> << >>]
                      ELSE T_lag_of(S, algs, 0)] @@ S1.sim
              ELSE S1.sim
        d2 == setattr(d1, "mons", [k \in Range(sm["monitors"]) |-> << >>])
        d3 == IF train
              THEN set_alg_attrs(d2, sm["comp_algs"] \o <<the(sm["learn_alg"])>>)
              ELSE d2
        S3 == [S1 EXCEPT !.sim = d3]
        S4 == IF sm["a_initial"] # None
              THEN net_reset_network(S3, 0 - 1, "a")
              ELSE net_reset_network(S3, 0 - 1, "default")
    IN first_inputs(S4)

---------------------------------------------------------------------------
(* Simulation.run, up to the time loop *)

\* the statements of Simulation.run between the keyword check and the time loop
run_setup(S, data, mode, monitors, kwargs) ==
    LET T == data[mode]
        d1 == [a \in {"mode", "monitors", "x_inputs", "y_labels", "total_time_steps"} |->
                 IF a = "mode" THEN mode
                 ELSE IF a = "monitors" THEN monitors
                 ELSE IF a = "total_time_steps" THEN T
                 ELSE [split |-> mode, len |-> T]] @@ S.sim
        d2 == [verbose |-> TRUE, check_accuracy |-> FALSE, check_loss |-> FALSE,
               comp_algs |-> << >>, report_interval |-> Max(T \div 10, 1),
               update_interval |-> 1, sigma |-> 0] @@ d1
        d3 == dict_update(d2, kwargs)
        d4 == none_fill(d3, SimRunAllowed)
    IN initialize_run([S EXCEPT !.sim = d4])

\* a variant that stores the mode before it checks the keywords
Simulation_run_enter_late(S, data, mode, monitors, kwargs) ==
    IF unexpected(kwargs, SimRunAllowed) # {}
    THEN raise(setsim(S, "mode", mode), "TypeError")
    ELSE run_setup(S, data, mode, monitors, kwargs)

Simulation_run_enter(S, data, mode, monitors, kwargs) ==
    IF unexpected(kwargs, SimRunAllowed) # {} THEN raise(S, "TypeError")
    ELSE run_setup(S, data, mode, monitors, kwargs)


---------------------------------------------------------------------------
(* The body of the time loop *)

then(S, Op(_)) == IF ok(S) THEN Op(S) ELSE S

\* a variant that starts a trial at every step
trial_start_every(t, k) == t % k >= 0

\* self.i_t_trial == 0
trial_start(t, k) == t % k = 0

\* Simulation.trial_structure
trial_structure(S) ==
    LET sm == S.sim
        t == sm["i_t"]
        k == the(sm["time_steps_per_trial"])
        S1 == setsim(S, "i_t_trial", t % k)
    IN
    IF trial_start(t, k)
    THEN LET S2 == setsim(S1, "i_trial", t \div k)
             S3 == IF sm["reset_sigma"] # None
                   THEN net_reset_network(S2, t, "sigma") ELSE S2
         IN IF sm["learn_alg"] = None
            THEN raise_at(S3, "AttributeError", "trial_structure")
            ELSE alg_reset_learning(S3, t, the(sm["learn_alg"]))
    ELSE S1

\* Simulation.forward_pass
forward_pass(S, x, loss) ==
    LET t == S.sim["i_t"]
        S1 == setnet(setnet(S, "x", x), "y", x)
        S2 == net_z_out(net_next_state(S1, t), t)
        l == net_loss(S2, loss)
        S3 == setnet(setnet(setnet(S2, "y_hat", "out"), "loss_", l), "error", l)
    IN
    IF S.sim["trial_lr_mask"] # None
    THEN \* self.loss_ *= self.trial_lr_mask[self.i_t_trial]
         IF ~hasattr(S3.sim, "loss_") \/ ~hasattr(S3.sim, "i_t_trial")
         THEN raise_at(S3, "AttributeError", "forward_pass")
         ELSE IF ~hasattr(S3.sim, "error")
         THEN raise_at(setsim(S3, "loss_", "scaled"), "AttributeError", "forward_pass")
         ELSE setsim(setsim(S3, "loss_", "scaled"), "error", "scaled")
    ELSE S3

\* normalized_dot_product and norm of two recurrent gradients
norm(g) == Fabs(g.g)
normalized_dot_product(gi, gj) ==
    LET den == Fmul(norm(gi), norm(gj))
    IN IF ~isfinite(den) \/ den.n = 0 THEN NaN
       ELSE F((gi.g.n * gj.g.n) \div den.n)

\* a variant that treats the active algorithm as a comparison algorithm too
is_comparison_all(i) == i >= 1

\* `if i_alg > 0`, for positions counted from 1
is_comparison(i) == i > 1

\* the first loop of compare_algorithms, from position i of self.algs
RECURSIVE compare_emit(_, _, _)
compare_emit(S, i, gs) ==
    LET algs == S.sim["algs"]
        t == S.sim["i_t"]
    IN
    IF i > Len(algs) THEN S
    ELSE LET name == algs[i]
             S1 == IF is_comparison(i)
                   THEN alg_call(alg_update_learning_vars(S, t, name), t, name, gs[name])
                   ELSE S
             buf == S1.sim["rec_grads_dict"]
             S2 == setsim(S1, "rec_grads_dict",
                          [buf EXCEPT ![name] = Append(@, S1.objs[name]["rec_grads"])])
         IN compare_emit(S2, i + 1, gs)

\* a variant that takes the oldest gradient for every algorithm
selected_oldest(S, key) == S.sim["rec_grads_dict"][key][1]

\* the gradient of key's buffer the alignment uses: index -1 for BPTT, index 0 otherwise
selected(S, key) ==
    LET b == S.sim["rec_grads_dict"][key]
    IN IF has_BPTT(key) THEN b[Len(b)] ELSE b[1]

\* a variant that deletes the newest gradient of a full buffer
drop_newest(S) ==
    setsim(S, "rec_grads_dict",
           [k \in DOMAIN S.sim["rec_grads_dict"] |->
              LET b == S.sim["rec_grads_dict"][k]
              IN IF Len(b) >= S.sim["T_lag"] THEN SubSeq(b, 1, Len(b) - 1) ELSE b])

\* for key in self.rec_grads_dict: if len(...) >= self.T_lag: del(...[0])
drop_oldest(S) ==
    setsim(S, "rec_grads_dict",
           [k \in DOMAIN S.sim["rec_grads_dict"] |->
              LET b == S.sim["rec_grads_dict"][k]
              IN IF Len(b) >= S.sim["T_lag"] THEN Tail(b) ELSE b])

\* the pairs (g_i, g_j) of the double loop of compare_algorithms, row by row
pairs(S1) ==
    LET algs == S1.sim["algs"]
        n == Len(algs)
    IN [k \in 1..(n * n) |->
          <<selected(S1, algs[((k - 1) \div n) + 1]), selected(S1, algs[((k - 1) % n) + 1])>>]

\* a variant that fills only the entries on and above the diagonal of the matrices
align_upper(S1) ==
    LET n == Len(S1.sim["algs"])
        t == S1.sim["i_t"]
        gg == pairs(S1)
        S2 == [S1 EXCEPT !.trace =
                 @ \o [k \in 1..(n * n) |-> <<t, "normalized_dot_product", gg[k]>>]]
    IN IF \E k \in DOMAIN S1.sim["mons"] : k.text = "alignment_matrix"
       THEN setsim(setsim(S2, "alignment_matrix",
                [ij \in (1..n) \X (1..n) |->
                   IF ij[1] <= ij[2]
                   THEN normalized_dot_product(gg[(ij[1] - 1) * n + ij[2]][1],
                                               gg[(ij[1] - 1) * n + ij[2]][2])
                   ELSE F(0)]),
              "alignment_weights",
                [ij \in (1..n) \X (1..n) |->
                   IF ij[1] <= ij[2]
                   THEN Fmul(norm(gg[(ij[1] - 1) * n + ij[2]][1]),
                             norm(gg[(ij[1] - 1) * n + ij[2]][2]))
                   ELSE F(0)])
       ELSE S1

\* the middle of compare_algorithms: the alignment matrix, when it is monitored; each
\* entry is a call of normalized_dot_product on the pair of gradients selected
align(S1) ==
    LET n == Len(S1.sim["algs"])
        t == S1.sim["i_t"]
        gg == pairs(S1)
        S2 == [S1 EXCEPT !.trace =
                 @ \o [k \in 1..(n * n) |-> <<t, "normalized_dot_product", gg[k]>>]]
    IN IF \E k \in DOMAIN S1.sim["mons"] : k.text = "alignment_matrix"
       THEN setsim(setsim(S2, "alignment_matrix",
                [ij \in (1..n) \X (1..n) |->
                   normalized_dot_product(gg[(ij[1] - 1) * n + ij[2]][1],
                                          gg[(ij[1] - 1) * n + ij[2]][2])]),
              "alignment_weights",
                [ij \in (1..n) \X (1..n) |->
                   Fmul(norm(gg[(ij[1] - 1) * n + ij[2]][1]),
                        norm(gg[(ij[1] - 1) * n + ij[2]][2]))])
       ELSE S1

\* a variant that keeps the gradient list of the last comparison algorithm
compare_algorithms_keeps_last(S, gs) ==
    LET R == drop_oldest(align(compare_emit(S, 1, gs)))
        last == R.sim["algs"][Len(R.sim["algs"])]
    IN setsim(R, "grads_list", R.objs[last]["rec_grads"])

\* Simulation.compare_algorithms
compare_algorithms(S, gs) == drop_oldest(align(compare_emit(S, 1, gs)))

\* a variant that counts the steps from one
update_due_after(t, update_interval) == (t + 1) % update_interval = 0

\* if self.i_t % self.update_interval == 0
update_due(t, update_interval) == t % update_interval = 0

\* the last statement of train_step: pass the gradients to the optimizer
apply_optimizer(S) ==
    LET t == S.sim["i_t"]
    IN IF S.sim["optimizer"] = None THEN raise_at(S, "AttributeError", "train_step")
       ELSE setnet(log(S, t, "get_update", S.sim["grads_list"].alg), "params",
                   get_update(S.sim["net"]["params"], S.sim["grads_list"]))

\* Simulation.train_step
train_step(S, gs) ==
    LET sm == S.sim
        t == sm["i_t"]
    IN
    IF sm["learn_alg"] = None
    THEN raise_at(log(S, t, "train_step", "sim"), "AttributeError", "train_step")
    ELSE
    LET name == the(sm["learn_alg"])
        S0 == log(S, t, "train_step", "sim")
        S1 == alg_call(alg_update_learning_vars(S0, t, name), t, name, gs[name])
        S2 == setsim(S1, "grads_list", S1.objs[name]["rec_grads"])
        S3 == IF Len(sm["comp_algs"]) > 0 THEN compare_algorithms(S2, gs) ELSE S2
    IN IF update_due(t, sm["update_interval"]) THEN apply_optimizer(S3) ELSE S3


---------------------------------------------------------------------------
(* The end of a time step: monitors, validation, progress report *)

\* the keys of the dictionary built from a list of names: each name once, in the order
\* of its first occurrence
RECURSIVE dict_keys(_)
dict_keys(names) ==
    IF names = << >> THEN << >>
    ELSE LET init == SubSeq(names, 1, Len(names) - 1)
             last == names[Len(names)]
         IN IF last \in Range(init) THEN dict_keys(init) ELSE Append(dict_keys(init), last)

\* `for key in self.mons`: the keys of the dictionary initialize_run built from
\* self.monitors
mons_keys(S) == dict_keys(S.sim["monitors"])

mons_append(S, key, o) ==
    setsim(S, "mons", [S.sim["mons"] EXCEPT ![key] = Append(@, o)])

\* the inner loop of get_radii_and_norms for one feature, over the keys left
RECURSIVE radii_and_norms_of(_, _, _)
radii_and_norms_of(S, feature, keys) ==
    IF keys = << >> \/ ~ok(S) THEN S
    ELSE LET key == Head(keys)
             r == rgetattr(S, S.sim, key.base)
             S1 == IF feature \in key.has
                   THEN IF r.ok
                        THEN mons_append(S, key, Obs(S.sim["i_t"], feature, key, r.val))
                        ELSE raise_at(S, "AttributeError", "get_radii_and_norms")
                   ELSE S
         IN radii_and_norms_of(S1, feature, Tail(keys))

\* Simulation.get_radii_and_norms
get_radii_and_norms(S) ==
    LET keys == mons_keys(S)
    IN radii_and_norms_of(radii_and_norms_of(S, "radius", keys), "norm", keys)

\* Simulation.update_monitors, over the keys left
RECURSIVE update_monitors_of(_, _)
update_monitors_of(S, keys) ==
    IF keys = << >> THEN S
    ELSE LET key == Head(keys)
             r == rgetattr(S, S.sim, key.path)
             S1 == IF r.ok THEN mons_append(S, key, Obs(S.sim["i_t"], "raw", key, r.val))
                   ELSE S
         IN update_monitors_of(S1, Tail(keys))

\* Simulation.update_monitors
update_monitors(S) == update_monitors_of(S, mons_keys(S))

\* Simulation.monitors_to_arrays and the del statements that end Simulation.run
Simulation_run_exit(S) ==
    [S EXCEPT !.sim = delattr(delattr(S.sim, "x_inputs"), "y_labels")]

\* Simulation.get_test_sim: a new simulation on copy(self.net)
get_test_sim(S) ==
    LET sm == S.sim
    IN Simulation_init(St(<< >>, S.objs, << >>, "none", << >>), sm["net"], {},
          [time_steps_per_trial |-> sm["time_steps_per_trial"],
           reset_sigma |-> sm["reset_sigma"],
           i_job |-> sm["i_job"], save_dir |-> sm["save_dir"]])

\* the values a monitor recorded
RECURSIVE vals(_)
vals(obs) == IF obs = << >> THEN << >> ELSE <<Head(obs).val>> \o vals(Tail(obs))

\* what one time step takes from outside: the loss of the step, a gradient for
\* each algorithm, and the losses of the test simulations it may start
Input(loss, gs, vl, rl) == [loss |-> loss, gs |-> gs, vl |-> vl, rl |-> rl]
RECURSIVE test_inputs(_)
test_inputs(losses) ==
    IF losses = << >> THEN << >>
    ELSE <<Input(Head(losses), << >>, << >>, << >>)>> \o test_inputs(Tail(losses))

\* the record kept of a test simulation a step started
TestRun(by, t, V, loss) ==
    [by |-> by, t |-> t, exc |-> V.exc,
     steps |-> IF hasattr(V.sim, "i_t") THEN V.sim["i_t"] + 1 ELSE 0,
     loss |-> loss, net |-> V.sim["net"], trace |-> V.trace,
     started |-> Len(V.nested)]

RECURSIVE time_step(_, _, _, _)
RECURSIVE run_loop(_, _, _, _)

\* Simulation.run as one call
Simulation_run(S, data, mode, monitors, kwargs, inputs) ==
    LET S1 == Simulation_run_enter(S, data, mode, monitors, kwargs)
    IN then(then(S1, LAMBDA X : run_loop(X, 0, data, inputs)), Simulation_run_exit)

\* test_sim.run(data, mode='test', monitors=['net.y_hat', 'net.loss_'], verbose=False)
run_test_sim(S, data, losses) ==
    Simulation_run(get_test_sim(S), data, "test", <<K_y_hat, K_loss>>,
                   [verbose |-> FALSE], test_inputs(losses))

\* a variant that also replaces the best network on an equal validation loss
save_best_model_on_equal(S, data, vl) ==
    LET V == run_test_sim(S, data, vl)
        val_loss == IF ok(V) THEN Fmean(vals(V.sim["mons"][K_loss])) ELSE NaN
        S1 == [S EXCEPT !.nested =
                 Append(@, TestRun("save_best_model", S.sim["i_t"], V, val_loss))]
    IN IF ~ok(V) THEN raise_at(S1, V.exc, "save_best_model")
       ELSE IF ~Flt(S.sim["best_val_loss"], val_loss)
       THEN setsim(setsim(S1, "best_net", V.sim["net"]), "best_val_loss", val_loss)
       ELSE S1

\* Simulation.save_best_model
save_best_model(S, data, vl) ==
    LET V == run_test_sim(S, data, vl)
        val_loss == IF ok(V) THEN Fmean(vals(V.sim["mons"][K_loss])) ELSE NaN
        S1 == [S EXCEPT !.nested =
                 Append(@, TestRun("save_best_model", S.sim["i_t"], V, val_loss))]
    IN IF ~ok(V) THEN raise_at(S1, V.exc, "save_best_model")
       ELSE IF Flt(val_loss, S.sim["best_val_loss"])
       THEN setsim(setsim(S1, "best_net", V.sim["net"]), "best_val_loss", val_loss)
       ELSE S1

\* Simulation.report_progress
report_progress(S, data, rl) ==
    IF S.sim["check_accuracy"] \/ S.sim["check_loss"]
    THEN LET V == run_test_sim(S, data, rl)
             test_loss == IF ok(V) THEN Fmean(vals(V.sim["mons"][K_loss])) ELSE NaN
             S1 == [S EXCEPT !.nested =
                      Append(@, TestRun("report_progress", S.sim["i_t"], V, test_loss))]
         IN IF ~ok(V) THEN raise_at(S1, V.exc, "report_progress")
            ELSE log(S1, S.sim["i_t"], "print", "summary")
    ELSE log(S, S.sim["i_t"], "print", "summary")

\* Simulation.end_time_step
end_time_step(S, data, inp) ==
    LET sm == S.sim
        t == sm["i_t"]
        S1 == setnet(setnet(S, "x_prev", sm["net"]["x"]), "y_prev", sm["net"]["y"])
        S2 == then(get_radii_and_norms(S1), update_monitors)
        S3 == IF sm["save_model_interval"] # None /\ sm["mode"] = "train"
                 /\ t % the(sm["save_model_interval"]) = 0
              THEN then(S2, LAMBDA X : save_best_model(X, data, inp.vl))
              ELSE S2
    IN IF t % sm["report_interval"] = 0 /\ t > 0 /\ sm["verbose"]
       THEN then(S3, LAMBDA X : report_progress(X, data, inp.rl))
       ELSE S3

\* a variant that trains in every mode
trains_always(mode) == mode \in {"train", "test"}

\* if self.mode == 'train'
trains(mode) == mode = "train"

\* one iteration of `for i_t in range(self.total_time_steps)`
time_step(S, t, data, inp) ==
    LET S0 == setsim(S, "i_t", t)
        S1 == IF S0.sim["time_steps_per_trial"] # None THEN trial_structure(S0) ELSE S0
        S2 == then(S1, LAMBDA X : forward_pass(X, [split |-> X.sim["mode"], i |-> t], inp.loss))
        S3 == IF trains(S0.sim["mode"])
              THEN then(S2, LAMBDA X : train_step(X, inp.gs)) ELSE S2
    IN then(S3, LAMBDA X : end_time_step(X, data, inp))

run_loop(S, t, data, inputs) ==
    IF ~ok(S) \/ t >= S.sim["total_time_steps"] THEN S
    ELSE run_loop(time_step(S, t, data, inputs[t + 1]), t + 1, data, inputs)


---------------------------------------------------------------------------
(* What a caller can pass *)

data == [train |-> TrainLen, test |-> TestLen]
\* data with no time steps
no_data == [train |-> 0, test |-> 0]

\* keyword arguments of Simulation(net, **kwargs)
\* (reset_sigma and trial_lr_mask are per-trial options: passed with time_steps_per_trial)
\* a trial_lr_mask for trials of two steps
Mask == <<F(2), F(3)>>
InitKwargsAll ==
    { kw("time_steps_per_trial", k) @@ kw("reset_sigma", r) @@ kw("trial_lr_mask", m)
        @@ kw("checkpoint_interval", c) :
        k \in {None, Some(2)}, r \in {None, Some(1)}, m \in {None, Some(Mask)},
        c \in {None, Some(2)} }
InitKwargs ==
    { q \in InitKwargsAll :
        hasattr(q, "time_steps_per_trial")
        \/ ~(hasattr(q, "reset_sigma") \/ hasattr(q, "trial_lr_mask")) }
\* the calls Simulation(net, allowed_kwargs_, **kwargs): a caller that extends the
\* allowed set does so for a key it passes
InitCalls ==
    { [allowed_kwargs_ |-> e, kwargs |-> q] :
        e \in {{}, {"checkpoint_interval"}}, q \in InitKwargs }
      \ { c \in [allowed_kwargs_ : {{"checkpoint_interval"}}, kwargs : InitKwargs] :
             ~hasattr(c.kwargs, "checkpoint_interval") }
MonitorLists ==
    { <<K_loss>>, <<K_A_loss, K_rec_grads_norm, K_loss, K_rec_grads_norm, K_loss>>,
      <<K_A_radius, K_loss>>,
      <<K_alignment, K_loss>>, <<K_clip_norm, K_loss>> }

\* keyword arguments of sim.run(data, mode, monitors, **kwargs)
RunKwargs(mode) ==
    IF mode = "train"
    THEN { [learn_alg |-> Some(a), optimizer |-> Some("SGD_Momentum"),
            comp_algs |-> SubSeq(CompPool, 1, nc)]
             @@ (IF ui = 1 THEN << >> ELSE [update_interval |-> ui])
             @@ kw("save_model_interval", smi) @@ vb @@ kw("checkpoint_interval", c) :
             a \in ActiveAlgs, nc \in 0..MaxComp, ui \in {1, 2}, smi \in {None, Some(2)},
             vb \in {<< >>, [verbose |-> FALSE], [check_loss |-> TRUE]},
             c \in {None, Some(2)} }
    ELSE { kw("learn_alg", la) @@ kw("save_model_interval", smi) @@ vb
             @@ kw("checkpoint_interval", c) :
             la \in {None, Some("RTRL")}, smi \in {None, Some(2)},
             vb \in {<< >>, [verbose |-> FALSE], [check_loss |-> TRUE]},
             c \in {None, Some(2)} }

\* losses and gradients the data can give at a step
LossVals == {F(1), NaN}
ActiveGradVals == {F(1)}
CompGradVals == {F(2)}
TestLossVals == {F(1), F(2)}

\* the inputs of step t of the run in progress
StepInputs(sm, t) ==
    LET train == sm["mode"] = "train"
        saves == train /\ sm["save_model_interval"] # None
                   /\ t % the(sm["save_model_interval"]) = 0
        comps == Range(sm["comp_algs"])
    IN { Input(l, gs, vl, [i \in 1..TestLen |-> F(1)]) :
           l \in LossVals,
           gs \in { g \in [DOMAIN AlgObjs -> ActiveGradVals \cup CompGradVals] :
                      \A a \in DOMAIN AlgObjs :
                         IF a \in comps THEN g[a] \in CompGradVals
                         ELSE g[a] \in ActiveGradVals },
           vl \in IF saves THEN {[i \in 1..TestLen |-> v] : v \in TestLossVals}
                  ELSE {[i \in 1..TestLen |-> F(1)]} }

---------------------------------------------------------------------------
(* The Simulation client: construct, call run, iterate, return *)

Cur == St(sim, objs, trace, exc, nested)
Becomes(S) ==
    /\ sim' = S.sim
    /\ objs' = S.objs
    /\ trace' = S.trace
    /\ exc' = S.exc
    /\ nested' = S.nested
rnn_vars == <<rpc, rnn, rtrace, rexc, rloc, rit>>
sim_vars == <<pc, sim, objs, trace, exc, it, nested>>

Construct ==
    /\ pc = "new"
    /\ \E c \in InitCalls :
         LET S == Simulation_init(Cur, Net0, c.allowed_kwargs_, c.kwargs)
         IN /\ Becomes(S)
            /\ pc' = IF exc' = "none" THEN "constructed" ELSE "raised"
    /\ UNCHANGED <<it, rnn_vars>>

RunCall ==
    /\ pc = "constructed"
    /\ \E mode \in {"train", "test"}, monitors \in MonitorLists, d \in {data, no_data} :
         \E kwargs \in RunKwargs(mode) :
           LET S == Simulation_run_enter(Cur, d, mode, monitors, kwargs)
           IN /\ Becomes(S)
              /\ pc' = IF exc' = "none" THEN "loop" ELSE "raised"
    /\ it' = 0
    /\ UNCHANGED rnn_vars

TimeStep ==
    /\ pc = "loop"
    /\ it < sim["total_time_steps"]
    /\ \E inp \in StepInputs(sim, it) :
         LET S == time_step(Cur, it, data, inp)
         IN /\ Becomes(S)
            /\ pc' = IF exc' = "none" THEN "loop" ELSE "raised"
    /\ it' = it + 1
    /\ UNCHANGED rnn_vars

Return ==
    /\ pc = "loop"
    /\ it >= sim["total_time_steps"]
    /\ Becomes(Simulation_run_exit(Cur))
    /\ pc' = "done"
    /\ UNCHANGED <<it, rnn_vars>>

InitSim ==
    /\ pc = "new"
    /\ sim = << >>
    /\ objs = AlgObjs
    /\ trace = << >>
    /\ exc = "none"
    /\ it = 0
    /\ nested = << >>
    /\ rpc = "idle"
    /\ rnn = << >>
    /\ rtrace = << >>
    /\ rexc = "none"
    /\ rloc = << >>
    /\ rit = 0


---------------------------------------------------------------------------
(* src/network.py: class RNN, the trainer RNN.run *)

Rs(r, tr, ex, lo) == [rnn |-> r, trace |-> tr, exc |-> ex, loc |-> lo]
rset(R, a, v) == [R EXCEPT !.rnn = setattr(@, a, v)]
rlog(R, t, ev, arg) == [R EXCEPT !.trace = Append(@, <<t, ev, arg>>)]

RnnInitAllowed == {"A", "B", "C"}
RnnRunAllowed ==
    {"l2_reg", "l2_SG", "t_stop_learning", "monitors", "SG_optimizer", "alpha_SG_target", "n_SG"}
Methods == {"rtrl", "uoro", "kf", "dni"}

\* Vectors are kept as terms over the values they are computed from: component i of
\* the vector v is at(v, i), a product is the pair of its factors, so two entries are
\* equal exactly when the same expression produced them.
at(v, i) == [of |-> v, i |-> i]
vec(v, n) == [i \in 1..n |-> at(v, i)]
Times(x, y) == [times |-> <<x, y>>]

\* self.activation.f(h), self.activation.f_prime(h), self.loss.f_prime(z, y)
activation_f(h) == [f |-> "activation.f", h |-> h]
activation_f_prime(h) == [f |-> "activation.f_prime", h |-> h]
loss_f_prime(z, y) == [f |-> "loss.f_prime", z |-> z, y |-> y]

\* np.multiply.outer(e, a): entry (i, j) is e[i] * a[j]
outer(e, a) == [i \in 1..Len(e) |-> [j \in 1..Len(a) |-> Times(e[i], a[j])]]

\* ndarray.flatten(): row after row
flatten(M) ==
    IF M = << >> THEN << >>
    ELSE [k \in 1..(Len(M) * Len(M[1])) |->
            M[((k - 1) \div Len(M[1])) + 1][((k - 1) % Len(M[1])) + 1]]

\* np.kron(u, v) of two vectors: entry k * len(v) + l is u[k] * v[l]
kron(u, v) ==
    [k \in 1..(Len(u) * Len(v)) |->
       Times(u[((k - 1) \div Len(v)) + 1], v[((k - 1) % Len(v)) + 1])]

\* v.reshape(s, order='F'): entry (i, j) of the matrix is v[i + j * rows]
reshape_F(v, s) ==
    IF Len(s) = 1 THEN v
    ELSE [i \in 1..s[1] |-> [j \in 1..s[2] |-> v[(i - 1) + (j - 1) * s[1] + 1]]]

\* the number of entries of an array of shape s
size(s) == IF Len(s) = 1 THEN s[1] ELSE s[1] * s[2]

\* np.cumsum([0] + sizes)
RECURSIVE cumsum(_)
cumsum(sizes) ==
    IF sizes = << >> THEN <<0>>
    ELSE LET c == cumsum(SubSeq(sizes, 1, Len(sizes) - 1))
         IN Append(c, c[Len(c)] + sizes[Len(sizes)])

\* the arrays W_rec, W_in, b_rec, W_out, b_out that make up the parameters p
weights(p) == [w \in {"W_rec", "W_in", "b_rec", "W_out", "b_out"} |-> [w |-> w, params |-> p]]

\* an array of an estimator after the n-th update of the estimator
updated(name, n) == [f |-> name, n |-> n]

\* x + y, entry by entry
Plus(x, y) == [plus |-> <<x, y>>]

\* RNN.__init__: parameters, the function objects, initial state, the estimators' state
RNN_init(R, kwargs) ==
    IF unexpected(kwargs, RnnInitAllowed) # {} THEN raise(R, "TypeError")
    ELSE [R EXCEPT !.rnn =
            [params |-> F(0), alpha |-> "alpha", activation |-> "activation",
             output |-> "output", loss |-> "loss",
             h |-> Hidden("init", 0), a |-> activation_f(Hidden("init", 0)),
             z |-> "init", dadw |-> "random", theta_tilde |-> "random", a_tilde |-> "random",
             estimator |-> 0, A |-> "random", B |-> "random", C |-> "zeros", u |-> "random"]
            @@ weights(F(0))]

\* RNN.__init__: the dimensions of the network, read off the weight matrices
RNN_dims(R, d) ==
    LET shapes == <<<<d.n_hidden, d.n_hidden>>, <<d.n_hidden, d.n_in>>, <<d.n_hidden>>,
                    <<d.n_out, d.n_hidden>>, <<d.n_out>>>>
    IN [R EXCEPT !.rnn =
          [n_in |-> d.n_in, n_hidden |-> d.n_hidden, n_out |-> d.n_out, shapes |-> shapes,
           flat_idx |-> cumsum([i \in 1..5 |-> size(shapes[i])]),
           n_params |-> d.n_hidden * d.n_hidden + d.n_hidden * d.n_in + d.n_hidden
                          + d.n_out * d.n_hidden + d.n_out,
           n_hidden_params |-> d.n_hidden * d.n_hidden + d.n_hidden * d.n_in + d.n_hidden]
          @@ @]

\* RNN.reset_network
RNN_reset_network(R, t) ==
    rset(rset(rlog(R, t, "reset_network", "default"), "h", Hidden("default", 0)),
         "a", activation_f(Hidden("default", 0)))

\* RNN.next_state
RNN_next_state(R, t) ==
    LET h == R.rnn["h"]
    IN rset(rset(rset(rset(rlog(R, t, "next_state", "rnn"), "h_prev", h), "a_prev", R.rnn["a"]),
                 "h", Hidden(h.src, h.steps + 1)),
            "a", activation_f(Hidden(h.src, h.steps + 1)))

\* RNN.z_out
RNN_z_out(R, t) == rset(rset(rlog(R, t, "z_out", "rnn"), "z_prev", R.rnn["z"]), "z", "out")

\* if not hasattr(self, name): self.name = v
default_attr(r, name, v) == IF hasattr(r, name) THEN r ELSE setattr(r, name, v)

\* the attributes RNN.run sets when method == 'dni'
dni_attrs(r) ==
    default_attr(default_attr([SG_params |-> <<r["A"], r["B"], r["C"]>>, sg_1 |-> "zeros",
                               sg_2 |-> "zeros", SG_learning_rate |-> "lr"] @@ r,
                              "alpha_SG_target", "0.1"),
                 "n_SG", 1)

\* self.mons = {} and an empty list for each monitor
new_mons(r) ==
    setattr(r, "mons",
            IF hasattr(r, "monitors") THEN [k \in Range(r["monitors"]) |-> << >>]
            ELSE << >>)

\* the statements of RNN.run from the l2_reg default to self.mons
run_defaults(R, method) ==
    LET r3 == default_attr(default_attr(R.rnn, "l2_reg", 0), "SG_optimizer", "SGD")
    IN [R EXCEPT !.rnn = new_mons(IF method = "dni" THEN dni_attrs(r3) ELSE r3)]

\* self.y_prev = y_labels[0]: y_labels[0] of an empty array raises
first_label(R, len, loc) ==
    IF len = 0 THEN raise(R, "IndexError")
    ELSE [R EXCEPT !.rnn = setattr(@, "y_prev", [split |-> "train", i |-> 0]), !.loc = loc]

\* RNN.run, up to the time loop
RNN_run_enter(R, len, optimizer, method, kwargs) ==
    IF unexpected(kwargs, RnnRunAllowed) # {} THEN raise(R, "TypeError")
    ELSE
    LET r1 == dict_update(R.rnn, kwargs)
        tsl == IF hasattr(r1, "t_stop_learning") THEN r1["t_stop_learning"] ELSE len
    IN first_label(run_defaults(RNN_reset_network([R EXCEPT !.rnn = r1], 0 - 1), method), len,
                   [t_stop_learning |-> tsl, method |-> method,
                    optimizer |-> optimizer, len |-> len])

\* RNN.get_a_jacobian
RNN_get_a_jacobian(R, t) == rset(rlog(R, t, "get_a_jacobian", "rnn"), "a_J", t)

\* a_hat = np.concatenate([self.a_prev, self.x, np.array([1])])
a_hat(r) == vec(r["a_prev"], r["n_hidden"]) \o vec(r["x"], r["n_in"]) \o <<1>>

\* self.synthetic_grad(a, y) = self.A.dot(a) + self.B.dot(y) + self.C
synthetic_grad(r, a, y) ==
    [f |-> "synthetic_grad", A |-> r["A"], B |-> r["B"], C |-> r["C"], a |-> a, y |-> y]

\* RNN.get_partial_a_partial_w
RNN_get_partial_a_partial_w(R) ==
    rset(R, "partial_a_partial_w",
         [f |-> "partial_a_partial_w", a_hat |-> a_hat(R.rnn), h |-> R.rnn["h"]])

\* the dni branch of update_dadw: the targets, then n_SG updates of A, B, C
RNN_update_sg(R, t) ==
    LET r == R.rnn
        n == r["estimator"] + 1
        R1 == rset(rset(rset(R, "sg_1", synthetic_grad(r, r["a_prev"], r["y_prev"])),
                        "sg_2", updated("sg_2", n)),
                   "e_sg", t)
    IN IF r["n_SG"] <= 0 THEN R1
       ELSE IF ~hasattr(r, "l2_SG") THEN raise(R1, "AttributeError")
       ELSE LET ABC == [k \in 1..3 |->
                          [f |-> <<"A", "B", "C">>[k], n |-> n, n_SG |-> r["n_SG"]]]
                r2 == [SG_grads |-> updated("SG_grads", n), SG_params |-> ABC,
                       A |-> ABC[1], B |-> ABC[2], C |-> ABC[3]] @@ R1.rnn
            IN [R1 EXCEPT !.rnn =
                  setattr(r2, "sg_1", synthetic_grad(r2, r["a_prev"], r["y_prev"]))]

\* RNN.update_dadw: the estimator of the method advances by one step; rand holds the
\* values np.random.uniform(-1, 1, ...) returns: nu for uoro, (c1, c2) for kf.  The
\* arrays of the estimators are named by the update that produced them.
RNN_update_dadw(R, t, method, rand) ==
    IF method \notin Methods THEN raise(R, "AssertionError")
    ELSE
    LET r == R.rnn
        n == r["estimator"] + 1
        done(X) == rset(rlog(X, t, "update_dadw", method), "estimator", n)
    IN IF method = "rtrl"
       THEN done(rset(RNN_get_partial_a_partial_w(R), "dadw", updated("dadw", n)))
       ELSE IF method = "uoro"
       THEN LET R1 == RNN_get_partial_a_partial_w(R)
                R2 == rset(rset(R1, "a_tilde", updated("a_tilde", n)),
                           "theta_tilde", updated("theta_tilde", n))
            IN done([R2 EXCEPT !.loc = [nu |-> rand.nu] @@ @])
       ELSE IF method = "kf"
       THEN done([R EXCEPT !.rnn =
                    [a_hat |-> a_hat(r), D |-> [f |-> "D", h |-> r["h"]],
                     H_prime |-> [f |-> "H_prime", a_J |-> r["a_J"], A |-> r["A"]],
                     c1 |-> rand.c[1], c2 |-> rand.c[2],
                     p1 |-> updated("p1", n), p2 |-> updated("p2", n),
                     u |-> updated("u", n), A |-> updated("A", n)] @@ @])
       ELSE then(RNN_update_sg(R, t), LAMBDA X : done(X))

\* the first block of the flat gradient, for the hidden-layer parameters
rec_gradient(r, method) ==
    IF method = "dni"
    THEN LET sg == [l \in 1..r["n_hidden"] |->
                      Times(at(synthetic_grad(r, r["a"], r["y"]), l),
                            at(activation_f_prime(r["h"]), l))]
             a_ext == vec(r["a"], r["n_hidden"]) \o vec(r["x"], r["n_in"]) \o <<1>>
         IN kron(a_ext, sg)
    ELSE vec([f |-> method, estimator |-> r["estimator"]], r["n_hidden_params"])

\* RNN.update_params: the gradient of the step, then the optimizer
RNN_update_params(R, t, optimizer, method) ==
    IF method \notin Methods THEN raise(R, "AssertionError")
    ELSE LET r == R.rnn
             e == vec(loss_f_prime(r["z"], r["y"]), r["n_out"])
             outer_grads == flatten(outer(e, vec(r["a"], r["n_hidden"]))) \o e
             gradient == rec_gradient(r, method) \o outer_grads
             grads == [i \in 1..5 |->
                         reshape_F(SubSeq(gradient, r["flat_idx"][i] + 1, r["flat_idx"][i + 1]),
                                   r["shapes"][i])]
             reg(i) == IF r["l2_reg"] > 0 /\ i \in {1, 2, 4}
                       THEN LET w == r[<<"W_rec", "W_in", "b_rec", "W_out", "b_out">>[i]]
                            IN [j \in 1..r["shapes"][i][1] |->
                                  [k \in 1..r["shapes"][i][2] |->
                                     Plus(grads[i][j][k],
                                          Times(r["l2_reg"], at(w, <<j, k>>)))]]
                       ELSE grads[i]
             g == [grads |-> [i \in 1..5 |-> reg(i)]]
                    @@ emitted(method, t, IF r["loss_"] = NaN THEN NaN ELSE F(1))
             R1 == rset(R, "grads", g)
             p == get_update(r["params"], g)
         IN [rlog(R1, t, "get_update", method) EXCEPT
               !.rnn = weights(p) @@ setattr(R1.rnn, "params", p)]

\* a variant that stops one step late
learns_late(i_t, t_stop_learning) == i_t <= t_stop_learning

\* if i_t < t_stop_learning
learns(i_t, t_stop_learning) == i_t < t_stop_learning

\* for key in self.mons.keys(): self.mons[key].append(getattr(self, key))
RECURSIVE RNN_record(_, _, _)
RNN_record(R, t, keys) ==
    IF keys = << >> \/ R.exc # "none" THEN R
    ELSE IF ~hasattr(R.rnn, Head(keys)) THEN raise(R, "AttributeError")
    ELSE RNN_record(
           rlog(rset(R, "mons", [R.rnn["mons"] EXCEPT ![Head(keys)] =
                                   Append(@, [t |-> t, val |-> R.rnn[Head(keys)]])]),
                t, "record", Head(keys)),
           t, Tail(keys))

\* one iteration of `for i_t in range(len(x_inputs))`
RNN_time_step(R, t, loss, rand) ==
    LET x == [split |-> "train", i |-> t]
        R1 == RNN_z_out(RNN_next_state(rset(rset(R, "x", x), "y", x), t), t)
        l == IF R1.rnn["params"] = NaN THEN NaN ELSE loss
        R2 == rset(rset(R1, "y_hat", "out"), "loss_", l)
        R3 == IF learns(t, R.loc.t_stop_learning)
              THEN then(then(RNN_get_a_jacobian(R2, t),
                             LAMBDA X : RNN_update_dadw(X, t, R.loc.method, rand)),
                        LAMBDA X : RNN_update_params(X, t, R.loc.optimizer, R.loc.method))
              ELSE R2
        R4 == then(R3, LAMBDA X :
                     RNN_record(X, t, IF hasattr(X.rnn, "monitors")
                                      THEN dict_keys(X.rnn["monitors"]) ELSE << >>))
    IN then(R4, LAMBDA X : rset(X, "y_prev", x))

\* keyword arguments of RNN(...) and of rnn.run(x_inputs, y_labels, optimizer, method, ...)
RnnInitKwargs == { kw("A", a) @@ kw("sigma", u) : a \in {None, Some("A0")}, u \in {None, Some(1)} }
RnnRunKwargs ==
    { (IF s = None THEN << >> ELSE [t_stop_learning |-> the(s)])
        @@ (IF m = None THEN << >> ELSE [monitors |-> the(m)])
        @@ kw("l2_SG", l) @@ kw("sigma", u) :
        s \in {None} \cup {Some(k) : k \in 0..RnnLen},
        m \in {None, Some(<<"loss_", "y_hat", "loss_">>)},
        l \in {None, Some(0)}, u \in {None, Some(1)} }
      \cup { [l2_reg |-> 1] @@ kw("l2_SG", l) : l \in {None, Some(0)} }

\* the shapes of the weight matrices RNN(...) is given
Dims == { [n_in |-> 1, n_hidden |-> H, n_out |-> O] : H \in 1..MaxHidden, O \in 1..MaxOut }

\* what np.random.uniform(-1, 1) can return: a number of the interval [-1, 1)
UniformVals == { F(0 - 1), [n |-> 1, d |-> 2] }
\* the draws of one step: none when the step does not learn
Rands(method, n_hidden, learning) ==
    IF ~learning THEN { [nu |-> << >>, c |-> << >>] }
    ELSE IF method = "uoro" THEN { [nu |-> v, c |-> << >>] : v \in [1..n_hidden -> UniformVals] }
    ELSE IF method = "kf" THEN { [nu |-> << >>, c |-> c] : c \in UniformVals \X UniformVals }
    ELSE { [nu |-> << >>, c |-> << >>] }

RCur == Rs(rnn, rtrace, rexc, rloc)
RBecomes(R) ==
    /\ rnn' = R.rnn
    /\ rtrace' = R.trace
    /\ rexc' = R.exc
    /\ rloc' = R.loc

RnnConstruct ==
    /\ rpc = "new"
    /\ \E kwargs \in RnnInitKwargs, d \in Dims :
         LET R == then(RNN_init(RCur, kwargs), LAMBDA X : RNN_dims(X, d))
         IN /\ RBecomes(R)
            /\ rpc' = IF rexc' = "none" THEN "constructed" ELSE "raised"
    /\ UNCHANGED <<rit, sim_vars>>

RnnRunCall ==
    /\ rpc = "constructed"
    /\ \E method \in Methods, kwargs \in RnnRunKwargs, len \in {0, RnnLen} :
         LET R == RNN_run_enter(RCur, len, "SGD", method, kwargs)
         IN /\ RBecomes(R)
            /\ rpc' = IF rexc' = "none" THEN "loop" ELSE "raised"
    /\ rit' = 0
    /\ UNCHANGED sim_vars

RnnTimeStep ==
    /\ rpc = "loop"
    /\ rit < rloc.len
    /\ \E loss \in LossVals, rand \in Rands(rloc.method, rnn["n_hidden"],
                                             learns(rit, rloc.t_stop_learning)) :
         LET R == RNN_time_step(RCur, rit, loss, rand)
         IN /\ RBecomes(R)
            /\ rpc' = IF rexc' = "none" THEN "loop" ELSE "raised"
    /\ rit' = rit + 1
    /\ UNCHANGED sim_vars

RnnReturn ==
    /\ rpc = "loop"
    /\ rit >= rloc.len
    /\ rpc' = "done"
    /\ UNCHANGED <<rnn, rtrace, rexc, rloc, rit, sim_vars>>

InitRnn ==
    /\ rpc = "new"
    /\ rnn = << >>
    /\ rtrace = << >>
    /\ rexc = "none"
    /\ rloc = << >>
    /\ rit = 0
    /\ pc = "idle"
    /\ sim = << >>
    /\ objs = AlgObjs
    /\ trace = << >>
    /\ exc = "none"
    /\ it = 0
    /\ nested = << >>

---------------------------------------------------------------------------
(* The specification: a client of Simulation, or a client of RNN.run *)

Init == InitSim \/ InitRnn

Next ==
    \/ Construct
    \/ RunCall
    \/ TimeStep
    \/ Return
    \/ RnnConstruct
    \/ RnnRunCall
    \/ RnnTimeStep
    \/ RnnReturn

Spec == Init /\ [][Next]_vars

---------------------------------------------------------------------------
(* Reading the history of calls *)

\* the positions of an entry in a history
Pos(tr, e) == {i \in 1..Len(tr) : tr[i] = e}
\* the positions of the entries of step t with a given event
PosOf(tr, t, ev) == {i \in 1..Len(tr) : tr[i][1] = t /\ tr[i][2] = ev}
\* every position of I comes before every position of J
Before(I, J) == \A i \in I : \A j \in J : i < j
\* a run of the given mode has been entered
InRun(mode) == pc \in {"loop", "done", "raised"} /\ hasattr(sim, "mode") /\ sim["mode"] = mode
\* the steps the loop has started
Started == 0..(it - 1)
Params == sim["net"]["params"]

---------------------------------------------------------------------------
(* Properties of Simulation.run *)

LearnEvents == {"train_step", "update_learning_vars", "emit", "get_update"}

\* the calls of the forward pass
ForwardEvents == {"next_state", "z_out"}
\* what a step of a test run calls besides the forward pass: the calls of
\* trial_structure and the print of report_progress
TrialEvents == {"reset_network", "reset_learning"}
\* the entries of a history made at the steps of the loop
StepEntries(tr) == {i \in 1..Len(tr) : tr[i][1] >= 0}

\* C1: in a run in mode 'test' the driver never trains: train_step is not entered, no
\* algorithm is advanced or asked for gradients, the optimizer is not applied, and the
\* parameters of the network stay what they were before the run; each step that
\* completes did the forward pass and recorded its monitors.  Besides the forward pass
\* and the monitors a step calls only trial_structure, at the start of a trial when
\* time_steps_per_trial is set (reset_network only with reset_sigma), and
\* report_progress, at the steps t > 0 that report_interval divides when verbose is set
\* (a print, and a test simulation only when check_accuracy or check_loss is set).
C1_TestModeFrozen ==
    InRun("test") =>
        /\ \A i \in 1..Len(trace) : trace[i][2] \notin LearnEvents
        /\ Params = Net0.params
        /\ ~hasattr(sim, "grads_list")
        /\ \A a \in DOMAIN objs : objs[a] = AlgObjs[a]
        /\ \A i \in 1..Len(nested) :
              /\ nested[i].net["params"] = Net0.params
              /\ \A j \in 1..Len(nested[i].trace) : nested[i].trace[j][2] \notin LearnEvents
              /\ nested[i].by = "report_progress"
              /\ sim["check_accuracy"] \/ sim["check_loss"]
        /\ \A i \in StepEntries(trace) :
              LET t == trace[i][1]
                  ev == trace[i][2]
              IN /\ ev \in ForwardEvents \cup TrialEvents \cup {"print", "raise"}
                 /\ ev \in TrialEvents =>
                       /\ sim["time_steps_per_trial"] # None
                       /\ trial_start(t, the(sim["time_steps_per_trial"]))
                       /\ ev = "reset_network" => sim["reset_sigma"] # None
                 /\ ev = "print" =>
                       /\ sim["verbose"]
                       /\ t > 0
                       /\ t % sim["report_interval"] = 0
        /\ exc = "none" =>
              \A t \in Started :
                 /\ Cardinality(Pos(trace, <<t, "next_state", "net">>)) = 1
                 /\ Cardinality(Pos(trace, <<t, "z_out", "net">>)) = 1
                 /\ \E i \in 1..Len(sim["mons"][K_loss]) : sim["mons"][K_loss][i].t = t

\* a test run, given a learning algorithm and a trial structure, that returned after
\* recording every step, reset the algorithm at the start of a trial and printed a report
C1_Witness ==
    /\ InRun("test")
    /\ pc = "done"
    /\ sim["learn_alg"] # None
    /\ Len(sim["mons"][K_loss]) = TestLen
    /\ Params = Net0.params
    /\ \E i \in StepEntries(trace) : trace[i][2] = "reset_learning"
    /\ \E i \in StepEntries(trace) : trace[i][2] = "print"

\* C1 as stated: in a run in mode 'test' the parameters stay what they were and a step
\* does only the forward pass and the recording of the monitors.
C1_OnlyForwardAndMonitors ==
    InRun("test") =>
        /\ \A i \in 1..Len(trace) : trace[i][2] \notin LearnEvents
        /\ Params = Net0.params
        /\ \A i \in StepEntries(trace) : trace[i][2] \in ForwardEvents \cup {"raise"}
        /\ nested = << >>

\* C2: at every step of a run in mode 'train' that enters train_step (every step whose
\* forward pass returned), update_learning_vars is called exactly once on each algorithm
\* of self.algs, after the forward pass of the step and before that algorithm emits its
\* gradients, which it does exactly once; the active algorithm comes first, and the
\* optimizer is applied only after the active algorithm has emitted.
C2_LearningVarsOncePerStep ==
    (InRun("train") /\ hasattr(sim, "start_time")) =>
        \A t \in Started :
            LET fwd == Pos(trace, <<t, "z_out", "net">>)
                ent == Pos(trace, <<t, "train_step", "sim">>)
                algs == sim["algs"]
            IN /\ (fwd # {} /\ Pos(trace, <<t, "raise", "forward_pass">>) = {}) => ent # {}
               /\ ent # {} =>
                    /\ \A k \in 1..Len(algs) :
                         LET ulv == Pos(trace, <<t, "update_learning_vars", algs[k]>>)
                             emit == Pos(trace, <<t, "emit", algs[k]>>)
                         IN /\ Cardinality(ulv) = 1
                            /\ Cardinality(emit) = 1
                            /\ Before(fwd, ulv)
                            /\ Before(ulv, emit)
                            /\ k > 1 => Before(Pos(trace, <<t, "emit", algs[1]>>), ulv)
                    /\ Before(Pos(trace, <<t, "emit", algs[1]>>), PosOf(trace, t, "get_update"))

\* a training run with the largest number of comparison algorithms that returned
C2_Witness ==
    /\ InRun("train")
    /\ pc = "done"
    /\ Len(sim["algs"]) = MaxComp + 1
    /\ Pos(trace, <<TrainLen - 1, "update_learning_vars", sim["algs"][MaxComp + 1]>>) # {}
    /\ PosOf(trace, TrainLen - 1, "get_update") # {}

\* the number of times the optimizer was applied
Applied == Cardinality({i \in 1..Len(trace) : trace[i][2] = "get_update"})

\* C3: the gradient list kept in self.grads_list and handed to the optimizer is the one
\* the active algorithm emitted; the comparison algorithms change neither it nor the
\* parameters, so the parameters are the initial ones less the active gradients applied,
\* and running compare_algorithms on the state reached leaves both as they are.
C3_ComparisonLeavesUpdate ==
    (InRun("train") /\ hasattr(sim, "grads_list")) =>
        LET a == the(sim["learn_alg"])
        IN /\ sim["grads_list"] = objs[a]["rec_grads"]
           /\ sim["grads_list"].alg = a
           /\ \A i \in 1..Len(trace) : trace[i][2] = "get_update" => trace[i][3] = a
           /\ isfinite(Params) => Params = F(0 - Applied)
           /\ (pc = "loop" /\ it < sim["total_time_steps"] /\ Len(sim["comp_algs"]) > 0) =>
                 \A inp \in StepInputs(sim, it) :
                    LET R == compare_algorithms(Cur, inp.gs)
                    IN /\ R.sim["net"] = sim["net"]
                       /\ R.sim["grads_list"] = sim["grads_list"]

\* a training run with comparison algorithms that applied finite updates and returned
C3_Witness ==
    /\ InRun("train")
    /\ pc = "done"
    /\ Len(sim["comp_algs"]) = MaxComp
    /\ isfinite(Params)
    /\ Applied >= 2
    /\ Params = F(0 - Applied)

\* the steps at which train_step was entered, and those at which the optimizer was applied
EnteredSteps == {t \in Started : Pos(trace, <<t, "train_step", "sim">>) # {}}
AppliedSteps == {t \in Started : PosOf(trace, t, "get_update") # {}}

C4_AppliedOnInterval ==
    (InRun("train") /\ hasattr(sim, "start_time")) =>
        /\ AppliedSteps = {t \in EnteredSteps : t % sim["update_interval"] = 0}
        /\ \A t \in AppliedSteps : Cardinality(PosOf(trace, t, "get_update")) = 1
        /\ isfinite(Params) => Params = F(0 - Cardinality(AppliedSteps))
C4_OtherStepsKeepParams ==
    (pc = "loop" /\ sim["mode"] = "train" /\ it % sim["update_interval"] # 0) =>
        sim'["net"]["params"] = sim["net"]["params"]

\* C4: in a run in mode 'train' the optimizer is applied at step t exactly when
\* t mod update_interval = 0 (once, at the steps that enter train_step); a step with
\* t mod update_interval # 0 leaves the parameters as they were before it.
C4_UpdateInterval == [] C4_AppliedOnInterval /\ [][C4_OtherStepsKeepParams]_vars

\* a training run with update_interval 2 that updated at steps 0 and 2 and not at step 1
C4_Witness ==
    /\ InRun("train")
    /\ pc = "done"
    /\ sim["update_interval"] = 2
    /\ {0, 2} \subseteq AppliedSteps
    /\ 1 \in EnteredSteps \ AppliedSteps
    /\ Params = F(0 - Cardinality(AppliedSteps))

\* C5: with time_steps_per_trial = k and an active algorithm, reset_learning is called
\* on the active algorithm once at every step t with t mod k = 0, before the forward
\* pass of that step, and at no other step; the hidden state is drawn again at such a
\* step exactly when reset_sigma is set, and at no other step, so that the state after
\* a step has advanced (t mod k) + 1 times since it was drawn.
C5_TrialStructure ==
    (pc \in {"loop", "done", "raised"} /\ hasattr(sim, "start_time")
       /\ sim["time_steps_per_trial"] # None /\ sim["learn_alg"] # None) =>
        LET k == the(sim["time_steps_per_trial"])
            a == the(sim["learn_alg"])
            redraw == sim["reset_sigma"] # None
        IN /\ \A t \in Started :
                LET rl == Pos(trace, <<t, "reset_learning", a>>)
                    rn == Pos(trace, <<t, "reset_network", "sigma">>)
                    fwd == Pos(trace, <<t, "next_state", "net">>)
                IN /\ Cardinality(rl) = IF t % k = 0 THEN 1 ELSE 0
                   /\ PosOf(trace, t, "reset_learning") = rl
                   /\ Cardinality(rn) = IF t % k = 0 /\ redraw THEN 1 ELSE 0
                   /\ PosOf(trace, t, "reset_network") = rn
                   /\ Cardinality(fwd) = 1
                   /\ Before(rl \cup rn, fwd)
           /\ it >= 1 =>
                sim["net"]["h"] = IF redraw THEN Hidden("sigma", ((it - 1) % k) + 1)
                                  ELSE Hidden("default", it)

\* a training run with trials of two steps and reset_sigma that started its second trial
C5_Witness ==
    /\ InRun("train")
    /\ pc = "done"
    /\ sim["time_steps_per_trial"] = Some(2)
    /\ sim["reset_sigma"] # None
    /\ Pos(trace, <<2, "reset_learning", the(sim["learn_alg"])>>) # {}
    /\ Pos(trace, <<2, "reset_network", "sigma">>) # {}
    /\ Pos(trace, <<1, "reset_learning", the(sim["learn_alg"])>>) = {}

\* the validations save_best_model has run, and those that gave a loss
Saves == {i \in 1..Len(nested) : nested[i].by = "save_best_model"}
Measured == {i \in Saves : nested[i].exc = "none" /\ nested[i].loss # NaN}

\* C6: in a run in mode 'train' a validation is run at the steps t with
\* t mod save_model_interval = 0 and only there; best_val_loss is the least validation
\* loss measured so far (inf before the first), and best_net is the network copy of the
\* first validation that gave that loss: a later equal or higher loss replaces nothing.
C6_BestModel ==
    (InRun("train") /\ hasattr(sim, "best_val_loss")) =>
        LET smi == sim["save_model_interval"]
            best == sim["best_val_loss"]
        IN /\ \A i \in Saves :
                /\ smi # None
                /\ nested[i].t % the(smi) = 0
                /\ \A j \in Saves : nested[j].t = nested[i].t => j = i
           /\ (exc = "none" /\ smi # None) =>
                \A t \in Started : t % the(smi) = 0 => \E i \in Saves : nested[i].t = t
           /\ IF Measured = {}
              THEN best = Inf /\ ~hasattr(sim, "best_net")
              ELSE \E i \in Measured :
                     /\ nested[i].loss = best
                     /\ nested[i].net = sim["best_net"]
                     /\ \A j \in Measured : ~Flt(nested[j].loss, best)
                     /\ \A j \in Measured : j < i => Flt(best, nested[j].loss)

\* two validations, the second with the higher loss: the first one is kept
C6_Witness ==
    /\ InRun("train")
    /\ pc = "done"
    /\ \E i \in Measured : \E j \in Measured :
          /\ i < j
          /\ Flt(nested[i].loss, nested[j].loss)
          /\ sim["best_val_loss"] = nested[i].loss
          /\ sim["best_net"] = nested[i].net
          /\ sim["best_net"] # nested[j].net

\* C7: a monitor whose path does not resolve at a step is skipped for that step and the
\* run goes on, for a plain key as for a '-norm' or '-radius' key: get_radii_and_norms
\* never ends the run, and every step that completes records the monitors that resolve.
C7_MonitorMissNonFatal ==
    (pc \in {"loop", "done", "raised"} /\ hasattr(sim, "mons")) =>
        /\ \A i \in 1..Len(trace) :
              trace[i][2] = "raise" => trace[i][3] # "get_radii_and_norms"
        /\ pc # "raised" =>
              \A t \in Started : \E i \in 1..Len(sim["mons"][K_loss]) :
                                     sim["mons"][K_loss][i].t = t

\* C8: a keyword outside the allowed set (for Simulation.__init__, the set extended by
\* allowed_kwargs_) makes Simulation.__init__, Simulation.run, RNN.__init__ and
\* RNN.run raise TypeError and nothing else: the call on the object as
\* it is (new, constructed, or after a run) changes no attribute and makes no call.
C8_UnknownKeyRejected ==
    /\ pc = "new" =>
         \A c \in InitCalls :
            unexpected(c.kwargs, SimInitAllowed \cup c.allowed_kwargs_) # {} =>
               Simulation_init(Cur, Net0, c.allowed_kwargs_, c.kwargs) = raise(Cur, "TypeError")
    /\ pc \in {"constructed", "done"} =>
         \A mode \in {"train", "test"}, monitors \in MonitorLists :
            \A q \in RunKwargs(mode) :
               unexpected(q, SimRunAllowed) # {} =>
                  Simulation_run_enter(Cur, data, mode, monitors, q) = raise(Cur, "TypeError")
    /\ rpc = "new" =>
         \A q \in RnnInitKwargs :
            unexpected(q, RnnInitAllowed) # {} => RNN_init(RCur, q) = raise(RCur, "TypeError")
    /\ rpc \in {"constructed", "done"} =>
         \A method \in Methods, q \in RnnRunKwargs :
            unexpected(q, RnnRunAllowed) # {} =>
               RNN_run_enter(RCur, RnnLen, "SGD", method, q) = raise(RCur, "TypeError")
    /\ (pc = "raised" /\ exc = "TypeError") =>
         /\ trace = << >>
         /\ objs = AlgObjs
         /\ \/ sim = << >>
            \/ /\ DOMAIN sim \in {{"net"} \cup SimInitAllowed,
                                  {"net", "checkpoint_interval"} \cup SimInitAllowed}
               /\ sim["net"] = Net0
    /\ (rpc = "raised" /\ rexc = "TypeError") =>
         /\ rtrace = << >>
         /\ rnn = << >> \/ DOMAIN rnn =
               {"params", "alpha", "activation", "output", "loss", "h", "a", "z", "dadw",
                "theta_tilde", "a_tilde", "estimator", "A", "B", "C", "u",
                "W_rec", "W_in", "b_rec", "W_out", "b_out",
                "n_in", "n_hidden", "n_out", "shapes", "flat_idx", "n_params",
                "n_hidden_params"}

\* run() on a constructed simulation was rejected, and the simulation is as constructed
C8_Witness ==
    /\ pc = "raised"
    /\ exc = "TypeError"
    /\ hasattr(sim, "net")
    /\ ~hasattr(sim, "mode")
    /\ sim["time_steps_per_trial"] # None

\* C9: once the loss of a step is NaN or infinite the run ends there with an error:
\* no further step runs and the optimizer is not applied with the NaN gradient, so the
\* parameters stay finite.
C9_NonFiniteLossEndsRun ==
    /\ (hasattr(sim, "net") /\ hasattr(sim["net"], "loss_")
          /\ ~isfinite(sim["net"]["loss_"])) =>
             pc = "raised" /\ isfinite(Params)
    /\ (hasattr(rnn, "loss_") /\ ~isfinite(rnn["loss_"])) =>
             rpc = "raised" /\ isfinite(rnn["params"])

---------------------------------------------------------------------------
(* Properties of RNN.run *)

\* the steps of RNN.run that learn: those below t_stop_learning, all when it is not set
RnnStop == IF hasattr(rnn, "t_stop_learning") THEN rnn["t_stop_learning"] ELSE rloc.len
RnnLearned == {t \in 0..(rit - 1) : t < RnnStop}

\* C10: in RNN.run with t_stop_learning = s, every step does the forward pass and
\* records the monitors, and exactly the steps i_t < s compute the Jacobian, advance
\* the estimator and apply the optimizer; the parameters and the estimator after a step
\* i_t >= s are those after step s - 1.  Without t_stop_learning every step learns.
C10_StopLearningGate ==
    rpc \in {"loop", "done"} =>
        /\ \A t \in 0..(rit - 1) :
              /\ Cardinality(Pos(rtrace, <<t, "next_state", "rnn">>)) = 1
              /\ Cardinality(Pos(rtrace, <<t, "z_out", "rnn">>)) = 1
              /\ hasattr(rnn, "monitors") =>
                    \A k \in Range(rnn["monitors"]) :
                       /\ Cardinality(Pos(rtrace, <<t, "record", k>>)) = 1
                       /\ rnn["mons"][k][t + 1].t = t
              /\ \A ev \in {"get_a_jacobian", "update_dadw", "get_update"} :
                    Cardinality(PosOf(rtrace, t, ev)) = IF t < RnnStop THEN 1 ELSE 0
        /\ rnn["estimator"] = Cardinality(RnnLearned)
        /\ isfinite(rnn["params"]) => rnn["params"] = F(0 - Cardinality(RnnLearned))
        /\ rloc.t_stop_learning = RnnStop

\* a run that stopped learning after its first step and went on recording to the end
C10_Witness ==
    /\ rpc = "done"
    /\ hasattr(rnn, "t_stop_learning")
    /\ rnn["t_stop_learning"] = 1
    /\ hasattr(rnn, "monitors")
    /\ Len(rnn["mons"]["loss_"]) = RnnLen
    /\ rnn["params"] = F(0 - 1)
    /\ rnn["estimator"] = 1

---------------------------------------------------------------------------
(* Checkpoints, the loss mask, test runs with trials *)

\* C11: a run given checkpoint_interval = c accepts the option and keeps, in a mapping
\* on the simulation, one snapshot for every step t with t mod c = 0: after a run of T
\* steps the keys of the mapping are the multiples of c below T.
C11_CheckpointsStored ==
    /\ pc = "constructed" =>
         \A mode \in {"train", "test"}, monitors \in MonitorLists :
            \A q \in RunKwargs(mode) :
               unexpected(q, SimRunAllowed) = {"checkpoint_interval"} =>
                  Simulation_run_enter(Cur, data, mode, monitors, q).exc # "TypeError"
    /\ (pc = "done" /\ hasattr(sim, "checkpoint_interval")
          /\ sim["checkpoint_interval"] # None) =>
         /\ hasattr(sim, "checkpoints")
         /\ DOMAIN sim["checkpoints"] =
              {t \in 0..(sim["total_time_steps"] - 1) : t % the(sim["checkpoint_interval"]) = 0}

\* C13: with trial_lr_mask set, the forward pass of step t returns without an error and
\* leaves in net.loss_ and net.error the loss and error of the step multiplied by
\* trial_lr_mask[t mod time_steps_per_trial].
C13_MaskScalesLoss ==
    (pc \in {"loop", "raised"} /\ hasattr(sim, "start_time") /\ it >= 1
       /\ sim["trial_lr_mask"] # None /\ Pos(trace, <<it - 1, "z_out", "net">>) # {}) =>
        LET m == the(sim["trial_lr_mask"])[sim["i_t_trial"] + 1]
        IN /\ Pos(trace, <<it - 1, "raise", "forward_pass">>) = {}
           /\ \E l \in LossVals :
                 /\ sim["net"]["loss_"] = Fmul(l, m)
                 /\ sim["net"]["error"] = Fmul(l, m)

\* C19: a run in mode 'test' of a simulation with time_steps_per_trial set, and so each
\* test simulation that save_best_model or report_progress starts from such a
\* simulation, runs all its steps and returns without a learning algorithm or an
\* optimizer, and starts no test simulation of its own.
C19_TestRunCompletes ==
    /\ (InRun("test") /\ sim["time_steps_per_trial"] # None) =>
          /\ \A i \in 1..Len(trace) :
                trace[i][2] = "raise" => trace[i][3] # "trial_structure"
          /\ sim["monitors"] = <<K_loss>> => exc = "none"
          /\ pc = "done" => it = sim["total_time_steps"]
    /\ \A i \in 1..Len(nested) :
          /\ nested[i].exc = "none"
          /\ nested[i].steps = TestLen
          /\ nested[i].started = 0


---------------------------------------------------------------------------
(* The comparison of algorithms: gradient buffers and the alignment matrix *)

\* the run compares algorithms: it trains and has at least one comparison algorithm
Comparing == InRun("train") /\ hasattr(sim, "rec_grads_dict") /\ Len(sim["comp_algs"]) > 0

\* the number of gradients a buffer keeps from one step to the next
Keep(n, L) == IF n < Max(L - 1, 0) THEN n ELSE Max(L - 1, 0)

\* the calls of normalized_dot_product made at step t, in order
Aligned(t) == [k \in 1..Cardinality(PosOf(trace, t, "normalized_dot_product")) |->
                 trace[CHOOSE i \in PosOf(trace, t, "normalized_dot_product") :
                         Cardinality({j \in PosOf(trace, t, "normalized_dot_product") : j <= i}) = k][3]]

\* C16: when algorithms are compared, T_lag is the largest T_truncation among the
\* algorithms (0 if none has one); every step appends exactly one gradient to every
\* algorithm's buffer, a buffer holds at most max(T_lag, 1) gradients when the alignment
\* is computed and at most T_lag after the step, the oldest gradient is the first to go
\* (after n steps a buffer holds the gradients of the last min(n, max(T_lag - 1, 0))
\* steps, oldest first), and all buffers have the same length after every step.
C16_GradientBuffers ==
    Comparing =>
        LET L == sim["T_lag"]
            n == Cardinality(EnteredSteps)
            keep == Keep(n, L)
            buf == sim["rec_grads_dict"]
        IN /\ L = T_lag_of(Cur, sim["algs"], 0)
           /\ \A a \in Range(sim["algs"]) :
                 hasattr(objs[a], "T_truncation") => objs[a]["T_truncation"] <= L
           /\ L > 0 => \E a \in Range(sim["algs"]) :
                 hasattr(objs[a], "T_truncation") /\ objs[a]["T_truncation"] = L
           /\ DOMAIN buf = Range(sim["algs"])
           /\ \A a \in DOMAIN buf :
                 /\ Len(buf[a]) = keep
                 /\ Len(buf[a]) <= L
                 /\ \A k \in 1..keep : buf[a][k].alg = a /\ buf[a][k].t = n - keep + k - 1
           /\ (pc = "loop" /\ it < sim["total_time_steps"] /\ hasattr(sim, "grads_list")) =>
                 \A inp \in StepInputs(sim, it) :
                    LET A == compare_emit(Cur, 1, inp.gs)
                        B == drop_oldest(align(A))
                    IN \A a \in DOMAIN buf :
                          /\ A.sim["rec_grads_dict"][a] = Append(buf[a], A.objs[a]["rec_grads"])
                          /\ Len(A.sim["rec_grads_dict"][a]) <= Max(L, 1)
                          /\ Len(B.sim["rec_grads_dict"][a]) <= L
                          /\ B.sim["rec_grads_dict"][a] \in
                                {A.sim["rec_grads_dict"][a], Tail(A.sim["rec_grads_dict"][a])}

\* a comparison with T_lag = 3 returned with the gradients of the last two steps buffered
C16_Witness ==
    /\ Comparing
    /\ pc = "done"
    /\ sim["T_lag"] = 3
    /\ it >= 3
    /\ Cardinality(EnteredSteps) = it
    /\ \A a \in Range(sim["algs"]) :
          /\ Len(sim["rec_grads_dict"][a]) = 2
          /\ sim["rec_grads_dict"][a][1].t = it - 2

\* C17: every gradient handed to normalized_dot_product at step t is, for an algorithm
\* whose name contains 'BPTT', the gradient that algorithm emitted at step t, and for
\* any other algorithm the gradient it emitted at step max(0, t - max(T_lag - 1, 0)).
C17_SelectedGradients ==
    Comparing =>
        \A i \in 1..Len(trace) :
           trace[i][2] = "normalized_dot_product" =>
              LET t == trace[i][1]
                  lag == Max(sim["T_lag"] - 1, 0)
              IN \A k \in 1..2 :
                    LET g == trace[i][3][k]
                    IN /\ g.alg \in Range(sim["algs"])
                       /\ g.t = IF has_BPTT(g.alg) THEN t ELSE Max(0, t - lag)

\* an alignment at a step t >= T_lag - 1 > 0 of a BPTT gradient with a lagging one
C17_Witness ==
    /\ Comparing
    /\ \E i \in 1..Len(trace) :
          /\ trace[i][2] = "normalized_dot_product"
          /\ sim["T_lag"] >= 2
          /\ trace[i][1] >= sim["T_lag"] - 1
          /\ has_BPTT(trace[i][3][1].alg)
          /\ trace[i][3][1].t = trace[i][1]
          /\ ~has_BPTT(trace[i][3][2].alg)
          /\ trace[i][3][2].t = trace[i][1] - (sim["T_lag"] - 1)

\* the loss recorded for step t is NaN
NaNError(t) ==
    /\ K_loss \in DOMAIN sim["mons"]
    /\ \E k \in 1..Len(sim["mons"][K_loss]) :
          sim["mons"][K_loss][k].t = t /\ sim["mons"][K_loss][k].val = NaN

\* C18: every alignment matrix recorded is n x n for n = 1 + the number of comparison
\* algorithms and symmetric, its diagonal entry (i,i) is the normalized dot product of
\* the gradient selected for algorithm i with itself, which is 1 whenever that gradient
\* is not zero; alignment_weights is symmetric as well.  (A gradient is a number, zero
\* or not, in every run whose losses are numbers; a gradient that is NaN is emitted
\* only at a step whose error is NaN, and its entry is then NaN.)
C18_AlignmentMatrix ==
    (Comparing /\ K_alignment \in DOMAIN sim["mons"]) =>
        LET n == 1 + Len(sim["comp_algs"])
            sym(M) == /\ DOMAIN M = (1..n) \X (1..n)
                      /\ \A i, j \in 1..n : M[<<i, j>>] = M[<<j, i>>]
        IN /\ n = Len(sim["algs"])
           /\ \A k \in 1..Len(sim["mons"][K_alignment]) :
                 LET o == sim["mons"][K_alignment][k]
                     gg == Aligned(o.t)
                 IN /\ sym(o.val)
                    /\ Len(gg) = n * n
                    /\ \A i \in 1..n :
                          LET g == gg[(i - 1) * n + i]
                          IN /\ g[1] = g[2]
                             /\ g[1].alg = sim["algs"][i]
                             /\ o.val[<<i, i>>] = normalized_dot_product(g[1], g[1])
                             /\ (isfinite(g[1].g) /\ g[1].g.n # 0) => o.val[<<i, i>>] = F(1)
                             /\ g[1].g = NaN =>
                                   /\ o.val[<<i, i>>] = NaN
                                   /\ NaNError(g[1].t)
           /\ hasattr(sim, "alignment_weights") => sym(sim["alignment_weights"])
           /\ hasattr(sim, "alignment_matrix") => sym(sim["alignment_matrix"])

\* a 3 x 3 alignment matrix was recorded at two steps, with ones on the diagonal and
\* the weights of two different gradient norms off the diagonal
C18_Witness ==
    /\ Comparing
    /\ K_alignment \in DOMAIN sim["mons"]
    /\ Len(sim["comp_algs"]) = 2
    /\ Len(sim["mons"][K_alignment]) >= 2
    /\ \A i \in 1..3 : sim["mons"][K_alignment][2].val[<<i, i>>] = F(1)
    /\ sim["alignment_weights"][<<1, 2>>] = F(2)
    /\ sim["alignment_weights"][<<2, 1>>] = F(2)

---------------------------------------------------------------------------
(* Monitors *)

\* the values a monitor recorded at step t
At(key, t) == {k \in 1..Len(sim["mons"][key]) : sim["mons"][key][k].t = t}

\* C20: a monitor records at most one value per step, exactly one at a step where its
\* target resolves, so a monitor that recorded at every one of the T steps of a run has
\* length T; a key with a '-norm' or '-radius' suffix records only the norm or radius
\* of its base object and a key without a suffix only the raw attribute value.
C20_OneValuePerStep ==
    (pc \in {"loop", "done"} /\ hasattr(sim, "mons")) =>
        \A key \in DOMAIN sim["mons"] :
           /\ \A t \in Started : Cardinality(At(key, t)) <= 1
           /\ (\A t \in Started : At(key, t) # {}) => Len(sim["mons"][key]) = it
           /\ \A k \in 1..Len(sim["mons"][key]) :
                 IF key.base # key.path
                 THEN sim["mons"][key][k].kind \in key.has
                 ELSE sim["mons"][key][k].kind = "raw"

---------------------------------------------------------------------------
(* The gradients and the random draws of RNN.run *)

\* the last step of rnn.run updated the parameters
RnnUpdated ==
    /\ rpc \in {"loop", "done"}
    /\ rit >= 1
    /\ hasattr(rnn, "grads")
    /\ rnn["grads"].t = rit - 1

\* C12: for every output size O and hidden size H, the gradient of W_out stored by
\* update_params has entry (i, j) equal to e[i] * a[j], and the gradient of b_out is e,
\* where e is the error of the step and a the activation.
C12_OutputGradientLayout ==
    RnnUpdated =>
        LET e == vec(loss_f_prime(rnn["z"], rnn["y"]), rnn["n_out"])
            a == vec(rnn["a"], rnn["n_hidden"])
        IN /\ \A i \in 1..rnn["n_out"], j \in 1..rnn["n_hidden"] :
                 rnn["grads"].grads[4][i][j] = Times(e[i], a[j])
           /\ rnn["grads"].grads[5] = e

\* C14: every value drawn for nu by the UORO update and for c1 and c2 by the KF-RTRL
\* update is -1 or +1.
C14_SignDraws ==
    /\ (rpc \in {"loop", "done", "raised"} /\ "nu" \in DOMAIN rloc) =>
          \A k \in 1..Len(rloc.nu) : rloc.nu[k] \in {F(0 - 1), F(1)}
    /\ hasattr(rnn, "c1") => rnn["c1"] \in {F(0 - 1), F(1)} /\ rnn["c2"] \in {F(0 - 1), F(1)}

\* C15: for method 'dni' the gradients of W_rec, W_in and b_rec stored at step t are the
\* blocks of the Kronecker product of [a_prev; x; 1] with sg(a, y) * phi'(h), reshaped.
C15_DniUsesPreviousActivation ==
    (RnnUpdated /\ rloc.method = "dni") =>
        LET sg == [l \in 1..rnn["n_hidden"] |->
                     Times(at(synthetic_grad(rnn, rnn["a"], rnn["y"]), l),
                           at(activation_f_prime(rnn["h"]), l))]
            expected == kron(a_hat(rnn), sg)
        IN \A i \in 1..3 :
              rnn["grads"].grads[i] =
                 reshape_F(SubSeq(expected, rnn["flat_idx"][i] + 1, rnn["flat_idx"][i + 1]),
                           rnn["shapes"][i])

====
